---- MODULE Spec2Model ----
(***************************************************************************)
(* Model of main.py: background removal by border-colour chroma key with   *)
(* boundary refinement, foreground scaling/centering, and the batch loop.  *)
(*                                                                         *)
(* Images are records [mode, width, height, data]; data maps the row-major *)
(* pixel index 1..width*height to the tuple Image.getpixel returns in the  *)
(* image's mode (an int of a single-band mode is the 1-tuple <<v>>).       *)
(***************************************************************************)
EXTENDS Integers, Sequences, FiniteSets, TLC

VARIABLES pc, image, detected, bg_color, processed,
          margin_ratio, output_size, geometry, scaled,
          args, fs, listing, idx, counter, processed_count, exit_code, log, original

imageVars == <<image, detected, bg_color, processed>>

scaleVars == <<margin_ratio, output_size, geometry, scaled>>

batchVars == <<args, fs, listing, idx, counter, processed_count, exit_code, log, original>>

vars == <<pc, imageVars, scaleVars, batchVars>>

\* ------------------------------------------------------------------------
\* Program constants (main.py, module level)
\* ------------------------------------------------------------------------
EDGE_SAMPLE_SIZE == 5
COLOR_THRESHOLD == 5
BOUNDARY_DILATION_SIZE == 10
BOUNDARY_COLOR_THRESHOLD == 10

\* ------------------------------------------------------------------------
\* Bounds of the model
\* ------------------------------------------------------------------------
\* largest number of pixels of the exhaustively coloured small images
MaxSmallPixels == 3

\* ------------------------------------------------------------------------
\* Generic helpers
\* ------------------------------------------------------------------------
Abs(n) == IF n < 0 THEN -n ELSE n

\* row-major index of the pixel at column x, row y (both 0-based)
PixelIndex(img, x, y) == y * img.width + x + 1

PixelX(img, p) == (p - 1) % img.width

PixelY(img, p) == (p - 1) \div img.width

Pixels(img) == 1 .. (img.width * img.height)

InImage(img, x, y) == x >= 0 /\ x < img.width /\ y >= 0 /\ y < img.height

\* outcome of a call: the value returned, or the exception raised
Return(v) == [ok |-> TRUE, value |-> v]

Raise(e) == [ok |-> FALSE, error |-> e]

\* outcome of a call that has not been made yet
NotCalled == [ok |-> FALSE, error |-> "not called"]

\* palette of the palette-mode ("P") images of the model
PaletteTable == <<  <<0, 0, 0>>, <<6, 0, 0>>, <<255, 255, 255>>  >>

\* Image.convert("RGBA"): the RGBA sample of one pixel value of mode `mode`
ConvertRGBA(mode, v) ==
    CASE mode = "RGB"  -> <<v[1], v[2], v[3], 255>>
      [] mode = "RGBA" -> v
      [] mode = "L"    -> <<v[1], v[1], v[1], 255>>
      [] mode = "P"    -> <<PaletteTable[v[1] + 1][1], PaletteTable[v[1] + 1][2],
                            PaletteTable[v[1] + 1][3], 255>>

\* ------------------------------------------------------------------------
\* detect_background_color (main.py 236-269)
\* ------------------------------------------------------------------------
\* Image.getpixel((x, y)): a negative coordinate counts from the far edge, a
\* coordinate outside the image raises IndexError
GetPixel(img, x, y) ==
    LET xx == IF x < 0 THEN img.width + x ELSE x
        yy == IF y < 0 THEN img.height + y ELSE y
    IN  IF InImage(img, xx, yy)
        THEN Return(img.data[PixelIndex(img, xx, yy)])
        ELSE Raise("IndexError")

\* the k-th (0-based) coordinate appended by the loop of lines 250-253:
\* for each x, for each y, the left sample and then the right sample
ColumnSample(img, k) ==
    LET x == (k \div 2) \div img.height
        y == (k \div 2) % img.height
    IN  IF k % 2 = 0 THEN <<x, y>> ELSE <<img.width - 1 - x, y>>

\* the k-th (0-based) coordinate appended by the loop of lines 255-258:
\* for each y, for each x, the top sample and then the bottom sample
RowSample(img, k) ==
    LET y == (k \div 2) \div img.width
        x == (k \div 2) % img.width
    IN  IF k % 2 = 0 THEN <<x, y>> ELSE <<x, img.height - 1 - y>>

\* the coordinates read by lines 250-258, in the order they are read
SampleCoords(img) ==
    LET n == 2 * EDGE_SAMPLE_SIZE * img.height
        m == 2 * EDGE_SAMPLE_SIZE * img.width
    IN  [k \in 1 .. n + m |->
            IF k <= n THEN ColumnSample(img, k - 1) ELSE RowSample(img, k - n - 1)]

\* lines 261-266: color_counts as its items <<pixel, count>> in insertion
\* order: a pixel value is inserted at its first occurrence in seq and
\* counted at every occurrence
CountColors(seq) ==
    LET firsts == { k \in 1 .. Len(seq) : \A j \in 1 .. k - 1 : seq[j] # seq[k] }
        nth(i) == CHOOSE k \in firsts : Cardinality({ j \in firsts : j < k }) = i - 1
    IN  [i \in 1 .. Cardinality(firsts) |->
            <<seq[nth(i)], Cardinality({ k \in 1 .. Len(seq) : seq[k] = seq[nth(i)] })>>]

\* the scan of max(): the best of items[1..i], kept unless a later item has a
\* strictly larger count
RECURSIVE MaxScan(_, _)
MaxScan(items, i) ==
    IF i = 1 THEN items[1]
    ELSE LET best == MaxScan(items, i - 1)
         IN  IF items[i][2] > best[2] THEN items[i] ELSE best

RECURSIVE MaxScanLast(_, _)
MaxScanLast(items, i) ==
    IF i = 1 THEN items[1]
    ELSE LET best == MaxScanLast(items, i - 1)
         IN  IF items[i][2] >= best[2] THEN items[i] ELSE best

\* a max() that keeps the last of the maximal items
MaxByCountLast(items) == MaxScanLast(items, Len(items))[1]

\* line 268: max(color_counts.items(), key=lambda x: x[1])[0]
MaxByCount(items) == MaxScan(items, Len(items))[1]

detect_background_color(img) ==
    LET coords == SampleCoords(img)
        reads == [k \in 1 .. Len(coords) |-> GetPixel(img, coords[k][1], coords[k][2])]
    IN  IF \E k \in 1 .. Len(reads) : ~reads[k].ok
        THEN Raise("IndexError")
        ELSE Return(MaxByCount(
                 CountColors(<<>> \o [k \in 1 .. Len(reads) |-> reads[k].value])))

\* ------------------------------------------------------------------------
\* remove_background_color (main.py 271-336)
\* ------------------------------------------------------------------------
\* one channel of np.abs(data[:, :, :3] - bg_color).  A 3-tuple bg_color is
\* an int64 array, so the difference is exact; a bare int (the getpixel value
\* of a single-band image) keeps the array's uint8 type and wraps modulo 256.
ChannelDiff(v, bg, c) ==
    IF Len(bg) = 3 THEN Abs(v - bg[c]) ELSE (v - bg[1]) % 256

\* color_diff of one RGBA sample
ColorDiff(rgba, bg) == [c \in 1..3 |-> ChannelDiff(rgba[c], bg, c)]

\* np.all(color_diff <= COLOR_THRESHOLD, axis=2) for one pixel
IsBackgroundDiff(diff) == \A c \in 1..3 : diff[c] <= COLOR_THRESHOLD

\* a boundary colour test that excludes the threshold itself
BoundaryColorMaskStrict(diff) ==
    diff[1] + diff[2] + diff[3] < 3 * BOUNDARY_COLOR_THRESHOLD

\* np.mean(color_diff, axis=2) <= BOUNDARY_COLOR_THRESHOLD for one pixel:
\* the float64 mean sum/3.0 is <= 10.0 exactly when the integer sum is <= 30
BoundaryColorMask(diff) ==
    diff[1] + diff[2] + diff[3] <= 3 * BOUNDARY_COLOR_THRESHOLD

\* np.pad(mask, n, constant_values=False) read at image coordinates (x, y)
Padded(img, mask, x, y) ==
    IF InImage(img, x, y) THEN mask[PixelIndex(img, x, y)] ELSE FALSE

\* the loop of lines 307-313: a foreground pixel with one of the 8 shifted
\* (zero-padded) foreground masks FALSE at its position
BoundaryMask(img, is_foreground) ==
    [p \in Pixels(img) |->
        \E i \in 0..2, j \in 0..2 :
            /\ ~(i = 1 /\ j = 1)
            /\ is_foreground[p]
            /\ ~Padded(img, is_foreground, PixelX(img, p) + j - 1, PixelY(img, p) + i - 1)]

\* a dilation whose window is one pixel wider on every side
DilateWide(img, boundary_mask) ==
    [p \in Pixels(img) |->
        \E i \in -1 .. 2 * BOUNDARY_DILATION_SIZE + 1, j \in -1 .. 2 * BOUNDARY_DILATION_SIZE + 1 :
            Padded(img, boundary_mask,
                   PixelX(img, p) + j - BOUNDARY_DILATION_SIZE,
                   PixelY(img, p) + i - BOUNDARY_DILATION_SIZE)]

\* lines 320-327: the maximum of the padded boundary mask over the
\* (2n+1) x (2n+1) window centred on each pixel
Dilate(img, boundary_mask) ==
    IF BOUNDARY_DILATION_SIZE > 0
    THEN [p \in Pixels(img) |->
            \E i \in 0 .. 2 * BOUNDARY_DILATION_SIZE, j \in 0 .. 2 * BOUNDARY_DILATION_SIZE :
                Padded(img, boundary_mask,
                       PixelX(img, p) + j - BOUNDARY_DILATION_SIZE,
                       PixelY(img, p) + i - BOUNDARY_DILATION_SIZE)]
    ELSE boundary_mask

\* the alpha written by lines 291 and 330-334
RefinedAlpha(is_background, in_boundary, near_color) ==
    IF in_boundary /\ near_color /\ ~is_background THEN 0
    ELSE IF is_background THEN 0 ELSE 255

remove_background_color(img, bg) ==
    IF Len(bg) \notin {1, 3}
    THEN Raise("ValueError")   \* operands could not be broadcast together (line 287)
    ELSE
    LET data == [p \in Pixels(img) |-> ConvertRGBA(img.mode, img.data[p])]
        color_diff == [p \in Pixels(img) |-> ColorDiff(data[p], bg)]
        is_background == [p \in Pixels(img) |-> IsBackgroundDiff(color_diff[p])]
        is_foreground == [p \in Pixels(img) |-> ~is_background[p]]
        boundary_mask == BoundaryMask(img, is_foreground)
        dilated == Dilate(img, boundary_mask)
    IN  Return([mode |-> "RGBA", width |-> img.width, height |-> img.height,
                data |-> [p \in Pixels(img) |->
                            <<data[p][1], data[p][2], data[p][3],
                              RefinedAlpha(is_background[p], dilated[p],
                                           BoundaryColorMask(color_diff[p]))>>]])

\* ------------------------------------------------------------------------
\* Python floats (IEEE 754 binary64, round to nearest even) as used by
\* scale_foreground.  A natural number is its sequence of 15-bit limbs, most
\* significant first and without leading zero limbs; a positive float is
\* [m, e] with m a number of exactly 53 bits, standing for m * 2^e; 0.0 has
\* m = <<>>.  Ints that meet a float are below 2^16.
\* ------------------------------------------------------------------------
LimbBits == 15

Base == 2 ^ LimbBits

MantissaBits == 53

Zeros(n) == [i \in 1 .. n |-> 0]

RECURSIVE StripZeros(_)
StripZeros(n) == IF n # <<>> /\ n[1] = 0 THEN StripZeros(Tail(n)) ELSE n

LimbsOfNat(k) == StripZeros(<<k \div (Base * Base), (k \div Base) % Base, k % Base>>)

RECURSIVE NatOfLimbs(_)
NatOfLimbs(n) ==
    IF n = <<>> THEN 0
    ELSE Base * NatOfLimbs(SubSeq(n, 1, Len(n) - 1)) + n[Len(n)]

RECURSIVE BitLenNat(_)
BitLenNat(k) == IF k = 0 THEN 0 ELSE 1 + BitLenNat(k \div 2)

\* number of bits of a number without leading zero limbs
BitLen(n) == IF n = <<>> THEN 0 ELSE (Len(n) - 1) * LimbBits + BitLenNat(n[1])

\* n * k for an int k: one pass from the least significant limb
RECURSIVE MulLimbs(_, _, _, _, _)
MulLimbs(n, k, i, carry, acc) ==
    IF i = 0 THEN StripZeros(LimbsOfNat(carry) \o acc)
    ELSE LET t == n[i] * k + carry
         IN  MulLimbs(n, k, i - 1, t \div Base, <<t % Base>> \o acc)

\* long division of n by an int k: <<quotient, remainder>>
RECURSIVE DivLimbs(_, _, _, _, _)
DivLimbs(n, k, i, rem, acc) ==
    IF i > Len(n) THEN <<StripZeros(acc), rem>>
    ELSE LET t == Base * rem + n[i]
         IN  DivLimbs(n, k, i + 1, t % k, Append(acc, t \div k))

\* a - b for numbers of equal length with a >= b
RECURSIVE SubLimbs(_, _, _, _, _)
SubLimbs(a, b, i, borrow, acc) ==
    IF i = 0 THEN StripZeros(acc)
    ELSE LET t == a[i] - b[i] - borrow
         IN  SubLimbs(a, b, i - 1, IF t < 0 THEN 1 ELSE 0,
                      <<IF t < 0 THEN t + Base ELSE t>> \o acc)

\* n + 1
RECURSIVE IncLimbs(_, _)
IncLimbs(n, i) ==
    IF i = 0 THEN <<1>> \o n
    ELSE IF n[i] < Base - 1 THEN [n EXCEPT ![i] = n[i] + 1]
    ELSE IncLimbs([n EXCEPT ![i] = 0], i - 1)

\* n * 2^t
ShiftLeft(n, t) ==
    MulLimbs(n, 2 ^ (t % LimbBits), Len(n), 0, <<>>) \o Zeros(t \div LimbBits)

\* <<n div 2^t, whether a 1 bit was shifted out>>
ShiftRight(n, t) ==
    LET q == t \div LimbBits
    IN  IF q >= Len(n) THEN << <<>>, n # <<>> >>
        ELSE LET d == DivLimbs(SubSeq(n, 1, Len(n) - q), 2 ^ (t % LimbBits), 1, 0, <<>>)
             IN  <<d[1], d[2] # 0 \/ \E i \in Len(n) - q + 1 .. Len(n) : n[i] # 0>>

IsOdd(n) == n # <<>> /\ n[Len(n)] % 2 = 1

FloatZero == [m |-> <<>>, e |-> 0]

\* the float nearest to n * 2^e (plus a non-zero fraction below the last bit
\* when sticky), ties to even
RoundFloat(n, sticky, e) ==
    LET len == BitLen(n) IN
    IF len = 0 THEN FloatZero
    ELSE IF len <= MantissaBits
    THEN [m |-> ShiftLeft(n, MantissaBits - len), e |-> e - (MantissaBits - len)]
    ELSE LET drop == len - MantissaBits
             withGuard == ShiftRight(n, drop - 1)
             kept == ShiftRight(withGuard[1], 1)[1]
             up == IsOdd(withGuard[1]) /\ (withGuard[2] \/ sticky \/ IsOdd(kept))
             inc == IF up THEN IncLimbs(kept, Len(kept)) ELSE kept
         IN  IF BitLen(inc) > MantissaBits
             THEN [m |-> ShiftRight(inc, 1)[1], e |-> e + drop + 1]
             ELSE [m |-> inc, e |-> e + drop]

\* float(k) for an int k >= 0
FloatOfNat(k) == RoundFloat(LimbsOfNat(k), FALSE, 0)

\* k * f, the product of an int and a float
FloatMulNat(f, k) == RoundFloat(MulLimbs(f.m, k, Len(f.m), 0, <<>>), FALSE, f.e)

\* f / k, a float divided by an int: the dividend gets two more limbs, which
\* is more bits than the divisor has
FloatDivNat(f, k) ==
    IF f.m = <<>> THEN FloatZero
    ELSE LET d == DivLimbs(f.m \o Zeros(2), k, 1, 0, <<>>)
         IN  RoundFloat(d[1], d[2] # 0, f.e - 2 * LimbBits)

\* a - b for floats a >= b >= 0
FloatSub(a, b) ==
    IF b.m = <<>> THEN a
    ELSE LET wide == ShiftLeft(a.m, a.e - b.e)
             low == Zeros(Len(wide) - Len(b.m)) \o b.m
         IN  RoundFloat(SubLimbs(wide, low, Len(wide), 0, <<>>), FALSE, b.e)

RECURSIVE LimbsLess(_, _, _)
LimbsLess(a, b, i) ==
    IF i > Len(a) THEN FALSE
    ELSE IF a[i] # b[i] THEN a[i] < b[i]
    ELSE LimbsLess(a, b, i + 1)

\* a < b for floats >= 0
FloatLess(a, b) ==
    IF a.m = <<>> THEN b.m # <<>>
    ELSE IF b.m = <<>> THEN FALSE
    ELSE IF a.e # b.e THEN a.e < b.e
    ELSE LimbsLess(a.m, b.m, 1)

\* min(a, b): b only when it is strictly smaller
FloatMin(a, b) == IF FloatLess(b, a) THEN b ELSE a

\* int(f) for a float 0 <= f < 2^30: the fraction is cut off
FloatTrunc(f) ==
    IF f.m = <<>> THEN 0 ELSE NatOfLimbs(ShiftRight(f.m, 0 - f.e)[1])

\* the float of the decimal literal num/den (the nearest float)
FloatLiteral(num, den) == FloatDivNat(FloatOfNat(num), den)

\* ------------------------------------------------------------------------
\* get_foreground_bbox and scale_foreground (main.py 153-212)
\* ------------------------------------------------------------------------
None == <<>>

\* DEFAULT_MARGIN_RATIO = 0.1, as the decimal literal <<numerator, denominator>>
DEFAULT_MARGIN_RATIO == <<1, 10>>

SetMin(S) == CHOOSE a \in S : \A b \in S : a <= b

SetMax(S) == CHOOSE a \in S : \A b \in S : a >= b

\* image.split()[-1].getbbox(): the box (left, upper, right, lower) around the
\* pixels whose last band is not 0, or None
get_foreground_bbox(img) ==
    LET opaque == { p \in Pixels(img) : img.data[p][Len(img.data[p])] # 0 }
        xs == { PixelX(img, p) : p \in opaque }
        ys == { PixelY(img, p) : p \in opaque }
    IN  IF opaque = {} THEN None
        ELSE <<SetMin(xs), SetMin(ys), SetMax(xs) + 1, SetMax(ys) + 1>>

\* lines 181-186: the canvas size
CanvasSize(img, size) == IF size = None THEN <<img.width, img.height>> ELSE size

\* line 198: target_ratio = 1.0 - margin_ratio
TargetRatio(margin) == FloatSub(FloatOfNat(1), FloatLiteral(margin[1], margin[2]))

\* lines 199-201: scale = min(scale_w, scale_h)
Scale(target_ratio, orig_w, orig_h, fg_w, fg_h) ==
    FloatMin(FloatDivNat(FloatMulNat(target_ratio, orig_w), fg_w),
             FloatDivNat(FloatMulNat(target_ratio, orig_h), fg_h))

\* lines 203-204: <<int(fg_w * scale), int(fg_h * scale)>>
NewSize(scale, fg_w, fg_h) ==
    <<FloatTrunc(FloatMulNat(scale, fg_w)), FloatTrunc(FloatMulNat(scale, fg_h))>>

\* lines 208-209: the paste offsets
Geometry(canvas, fg_w, fg_h, new) ==
    [fg_w |-> fg_w, fg_h |-> fg_h, new_w |-> new[1], new_h |-> new[2],
     offset_x |-> (canvas[1] - new[1]) \div 2, offset_y |-> (canvas[2] - new[2]) \div 2]

\* lines 194-204 for a bounding box
GeometryOfBox(canvas, bbox, margin) ==
    Geometry(canvas, bbox[3] - bbox[1], bbox[4] - bbox[2],
             NewSize(Scale(TargetRatio(margin), canvas[1], canvas[2],
                           bbox[3] - bbox[1], bbox[4] - bbox[2]),
                     bbox[3] - bbox[1], bbox[4] - bbox[2]))

NoGeometry == [fg_w |-> 0, fg_h |-> 0, new_w |-> 0, new_h |-> 0,
               offset_x |-> 0, offset_y |-> 0]

\* lines 187-209: the locals of scale_foreground (none without a bounding box)
ScaleGeometry(img, margin, size) ==
    IF get_foreground_bbox(img) = None THEN NoGeometry
    ELSE GeometryOfBox(CanvasSize(img, size), get_foreground_bbox(img), margin)

\* Image.resize refuses a size with a side below 1 ("height and width must be > 0")
ResizeRaises(new_w, new_h) == new_w < 1 \/ new_h < 1

\* lines 189-212 given the locals: the input itself when it has no foreground,
\* else the canvas of the requested size (its pixels after the LANCZOS resize
\* are not modelled, only where the foreground was pasted)
ScaleResult(img, canvas, g) ==
    IF get_foreground_bbox(img) = None THEN Return(img)
    ELSE IF ResizeRaises(g.new_w, g.new_h) THEN Raise("ValueError")
    ELSE Return([mode |-> "RGBA", width |-> canvas[1], height |-> canvas[2],
                 pasted |-> <<g.offset_x, g.offset_y,
                              g.offset_x + g.new_w, g.offset_y + g.new_h>>])

scale_foreground(img, margin, size) ==
    ScaleResult(img, CanvasSize(img, size), ScaleGeometry(img, margin, size))

ScaleUnused ==
    /\ margin_ratio = DEFAULT_MARGIN_RATIO
    /\ output_size = None
    /\ geometry = NoGeometry
    /\ scaled = NotCalled

\* ------------------------------------------------------------------------
\* Strings: a str is the sequence of its code points
\* ------------------------------------------------------------------------
Dot == 46

Space == 32

Underscore == 95

\* ".png", ".jpg", ".jpeg"
ExtPng == <<46, 112, 110, 103>>

ExtJpg == <<46, 106, 112, 103>>

ExtJpeg == <<46, 106, 112, 101, 103>>

\* str.lower() of one character (the characters of the model are ASCII or
\* lower-case already)
LowerChar(c) == IF c >= 65 /\ c <= 90 THEN c + 32 ELSE c

Lower(str) == [i \in 1 .. Len(str) |-> LowerChar(str[i])]

EndsWith(str, suffix) ==
    /\ Len(str) >= Len(suffix)
    /\ SubSeq(str, Len(str) - Len(suffix) + 1, Len(str)) = suffix

\* filename.lower().endswith(('.png', '.jpg', '.jpeg'))
IsImageName(filename) ==
    \E ext \in {ExtPng, ExtJpg, ExtJpeg} : EndsWith(Lower(filename), ext)

\* os.path.splitext(filename)[0]: the name up to its last dot, unless only
\* dots precede that dot
SplitExtRoot(filename) ==
    LET dots == { i \in 1 .. Len(filename) : filename[i] = Dot } IN
    IF dots = {} THEN filename
    ELSE LET last == CHOOSE i \in dots : \A j \in dots : j <= i
         IN  IF \E j \in 1 .. last - 1 : filename[j] # Dot
             THEN SubSeq(filename, 1, last - 1)
             ELSE filename

\* re.sub(r'[^\x00-\x7F]', '', name)
RECURSIVE StripNonAscii(_)
StripNonAscii(str) ==
    IF str = <<>> THEN <<>>
    ELSE IF Head(str) > 127 THEN StripNonAscii(Tail(str))
    ELSE <<Head(str)>> \o StripNonAscii(Tail(str))

\* lines 148-151
sanitize_filename(filename) ==
    LET name == StripNonAscii(SplitExtRoot(filename))
    IN  [i \in 1 .. Len(name) |->
            LowerChar(IF name[i] = Space THEN Underscore ELSE name[i])]

\* str(n) for n >= 0
RECURSIVE Decimal(_)
Decimal(n) ==
    IF n < 10 THEN <<48 + n>> ELSE Append(Decimal(n \div 10), 48 + (n % 10))

\* lines 430-433: the output file name
OutputName(prefix, n, base_name) ==
    IF prefix # <<>>
    THEN prefix \o <<Underscore>> \o Decimal(n) \o <<Underscore>> \o base_name \o ExtPng
    ELSE base_name \o ExtPng

\* a < b for strings, by code points
RECURSIVE StrLess(_, _)
StrLess(a, b) ==
    IF b = <<>> THEN FALSE
    ELSE IF a = <<>> THEN TRUE
    ELSE IF Head(a) # Head(b) THEN Head(a) < Head(b)
    ELSE StrLess(Tail(a), Tail(b))

\* sorted(names)
RECURSIVE Sorted(_)
Sorted(names) ==
    IF names = {} THEN <<>>
    ELSE LET least == CHOOSE a \in names : \A b \in names : a = b \/ StrLess(a, b)
         IN  <<least>> \o Sorted(names \ {least})

\* ------------------------------------------------------------------------
\* Files and directories: fs maps a directory path to its state, a
\* directory's files map a file name to the file's content
\* ------------------------------------------------------------------------
NoDir == [exists |-> FALSE, files |-> <<>>]

EmptyDir == [exists |-> TRUE, files |-> <<>>]

\* ".gitkeep"
GitKeep == <<46, 103, 105, 116, 107, 101, 101, 112>>

\* os.listdir(dir)
ListDir(files_system, dir) == DOMAIN files_system[dir].files

\* the bytes of an encoded image, and bytes that are no image
Encoded(img) == [decodable |-> TRUE, image |-> img]

Undecodable == [decodable |-> FALSE, image |-> <<>>]

\* open(path, 'wb').write(content), in an existing directory
WriteFile(files_system, dir, name, content) ==
    LET files == files_system[dir].files
    IN  [files_system EXCEPT ![dir].files =
            [n \in DOMAIN files \cup {name} |-> IF n = name THEN content ELSE files[n]]]

\* lines 118-136: TRUE when validate_input returns, FALSE when it exits
validate_input(files_system, input_dir) ==
    /\ files_system[input_dir].exists
    /\ \E f \in ListDir(files_system, input_dir) : IsImageName(f)

\* lines 399-418: the output directory is removed with all it holds and
\* created again, and a .gitkeep file it held is written back
PrepareOutputDir(files_system, output_dir) ==
    LET old == files_system[output_dir]
        has_gitkeep == old.exists /\ GitKeep \in DOMAIN old.files
        created == [files_system EXCEPT ![output_dir] = EmptyDir]
    IN  IF has_gitkeep
        THEN WriteFile(created, output_dir, GitKeep, old.files[GitKeep])
        ELSE created

\* rembg's remove() is an external model: on an image it can return any
\* matte, of which the model keeps the two extremes, or fail
Matte(img, alpha) ==
    [mode |-> "RGBA", width |-> img.width, height |-> img.height,
     data |-> [p \in Pixels(img) |->
                 LET v == ConvertRGBA(img.mode, img.data[p])
                 IN  <<v[1], v[2], v[3], alpha>>]]

RembgOutcomes(input_data) ==
    IF ~input_data.decodable THEN {Raise("UnidentifiedImageError")}
    ELSE {Raise("Exception"),
          Return(Matte(input_data.image, 0)),
          Return(Matte(input_data.image, 255))}

\* lines 349-357: process_image in auto mode
AutoOutcome(input_data) ==
    IF ~input_data.decodable THEN Raise("UnidentifiedImageError")
    ELSE LET background_color == detect_background_color(input_data.image)
         IN  IF ~background_color.ok THEN background_color
             ELSE remove_background_color(input_data.image, background_color.value)

\* lines 338-367: the outcomes process_image can have
process_image(input_data, mode) ==
    IF mode = "auto" THEN {AutoOutcome(input_data)} ELSE RembgOutcomes(input_data)

\* lines 440-442: the image main saves for the bytes process_image returned
SavedImage(output_data, size) ==
    IF ~output_data.ok THEN output_data
    ELSE scale_foreground(output_data.value, DEFAULT_MARGIN_RATIO, size)

\* a counter that moves on after every image file, saved or not
CounterAfterAlways(n, saved) == n + 1

\* lines 445-449: the counter moves on only when the file was saved
CounterAfter(n, saved) == IF saved THEN n + 1 ELSE n

NoArgs == [prefix |-> <<>>, input_dir |-> "", output_dir |-> "", mode |-> "",
           output_size |-> None]

BatchUnused ==
    /\ args = NoArgs
    /\ fs = <<>>
    /\ listing = <<>>
    /\ idx = 0
    /\ counter = 0
    /\ processed_count = 0
    /\ exit_code = None
    /\ log = <<>>
    /\ original = <<>>

\* ------------------------------------------------------------------------
\* Input families
\* ------------------------------------------------------------------------
\* RGB colours around the two thresholds
Palette == { <<0, 0, 0>>, <<5, 5, 5>>, <<6, 0, 0>>, <<0, 30, 0>>,
             <<0, 0, 31>>, <<255, 255, 255>> }

MakeImage(mode, w, h, data) ==
    [mode |-> mode, width |-> w, height |-> h, data |-> data]

\* every RGB image of at most MaxSmallPixels pixels over the palette
SmallImages ==
    UNION { { MakeImage("RGB", w, h, d) : d \in [1 .. w * h -> Palette] } :
            <<w, h>> \in { s \in (1..MaxSmallPixels) \X (1..MaxSmallPixels) :
                              s[1] * s[2] <= MaxSmallPixels } }

\* side of the smallest square image with a pixel farther than the dilation
\* radius from the image border and from the border's neighbours
LargeSide == 2 * BOUNDARY_DILATION_SIZE + 3

\* a uniformly coloured image with one spot pixel of another colour
SpotImage(w, h, fill, spot, sx, sy) ==
    MakeImage("RGB", w, h,
              [p \in 1 .. w * h |-> IF p = sy * w + sx + 1 THEN spot ELSE fill])

LargeImages ==
    { SpotImage(LargeSide, LargeSide, fill, spot, s, s) :
        fill \in { <<6, 0, 0>>, <<0, 0, 31>> },
        spot \in { <<6, 0, 0>>, <<0, 0, 0>> },
        s \in { 0, LargeSide \div 2 } }

\* ------------------------------------------------------------------------
\* Specification of remove_background_color on its own
\* ------------------------------------------------------------------------
InitMask ==
    /\ pc = "remove"
    /\ detected = NotCalled
    /\ image \in SmallImages \cup LargeImages
    /\ bg_color \in { <<0, 0, 0>>, <<6, 0, 0>>, <<250, 255, 255>> }
    /\ processed = NotCalled
    /\ ScaleUnused
    /\ BatchUnused

RemoveBackgroundColor ==
    /\ pc = "remove"
    /\ processed' = remove_background_color(image, bg_color)
    /\ pc' = IF processed'.ok THEN "done" ELSE "raised"
    /\ UNCHANGED <<image, detected, bg_color, scaleVars, batchVars>>

NextMask == RemoveBackgroundColor

SpecMask == InitMask /\ [][NextMask]_vars

\* ------------------------------------------------------------------------
\* Claims about remove_background_color, stated on the input image
\* ------------------------------------------------------------------------
\* all three per-channel absolute differences to bg_color within the threshold
ChromaBackground(p) ==
    \A c \in 1..3 : Abs(image.data[p][c] - bg_color[c]) <= COLOR_THRESHOLD

\* mean of the three channel differences within the boundary threshold
MeanDiffSmall(p) ==
    Abs(image.data[p][1] - bg_color[1]) + Abs(image.data[p][2] - bg_color[2])
      + Abs(image.data[p][3] - bg_color[3]) <= 3 * BOUNDARY_COLOR_THRESHOLD

NeighbourOffsets == { d \in (-1..1) \X (-1..1) : d # <<0, 0>> }

\* foreground pixel with one of its 8 neighbour positions not foreground,
\* positions outside the image counting as not foreground
PaddedBoundaryPixel(q) ==
    /\ ~ChromaBackground(q)
    /\ \E d \in NeighbourOffsets :
          LET x == PixelX(image, q) + d[1]
              y == PixelY(image, q) + d[2]
          IN  ~InImage(image, x, y) \/ ChromaBackground(PixelIndex(image, x, y))

\* foreground pixel with a background pixel among its neighbours inside the image
InImageBoundaryPixel(q) ==
    /\ ~ChromaBackground(q)
    /\ \E d \in NeighbourOffsets :
          LET x == PixelX(image, q) + d[1]
              y == PixelY(image, q) + d[2]
          IN  InImage(image, x, y) /\ ChromaBackground(PixelIndex(image, x, y))

Chebyshev(p, q) ==
    LET dx == Abs(PixelX(image, p) - PixelX(image, q))
        dy == Abs(PixelY(image, p) - PixelY(image, q))
    IN  IF dx > dy THEN dx ELSE dy

\* the pixels within Chebyshev distance r of p
Within(p, r) ==
    { PixelIndex(image, x, y) :
        <<x, y>> \in { c \in (PixelX(image, p) - r .. PixelX(image, p) + r)
                             \X (PixelY(image, p) - r .. PixelY(image, p) + r) :
                          InImage(image, c[1], c[2]) } }

NearPaddedBoundary(p) ==
    \E q \in Within(p, BOUNDARY_DILATION_SIZE) : PaddedBoundaryPixel(q)

NearInImageBoundary(p) ==
    \E q \in Within(p, BOUNDARY_DILATION_SIZE) : InImageBoundaryPixel(q)

MaskDone == pc = "done" /\ processed.ok /\ ~detected.ok

AlphaOf(p) == processed.value.data[p][4]

ChromaAlpha(p) == IF ChromaBackground(p) THEN 0 ELSE 255

\* C2: after remove_background_color every alpha is 0 or 255, and it is 0
\* exactly when the pixel is within COLOR_THRESHOLD of bg_color on all three
\* channels, or it is foreground with mean difference <= BOUNDARY_COLOR_THRESHOLD
\* and lies within Chebyshev distance BOUNDARY_DILATION_SIZE of a boundary
\* pixel (outside positions counting as not foreground); otherwise it is 255.
C2_AlphaExact ==
    MaskDone =>
        \A p \in Pixels(image) :
            /\ AlphaOf(p) \in {0, 255}
            /\ AlphaOf(p) = 0 <=>
                  \/ ChromaBackground(p)
                  \/ (~ChromaBackground(p) /\ MeanDiffSmall(p) /\ NearPaddedBoundary(p))

\* C2 witness: one result holds a pixel made transparent by the chroma key, one
\* made transparent by the refinement, and one left opaque
C2_Witness ==
    /\ MaskDone
    /\ \E p \in Pixels(image) : ChromaBackground(p) /\ AlphaOf(p) = 0
    /\ \E p \in Pixels(image) : ~ChromaBackground(p) /\ AlphaOf(p) = 0
    /\ \E p \in Pixels(image) : AlphaOf(p) = 255

\* C4 as stated: a pixel farther than BOUNDARY_DILATION_SIZE from every
\* foreground pixel that has a background neighbour inside the image keeps
\* the alpha of the chroma-key step.
C4_LocalityInImage ==
    MaskDone =>
        \A p \in Pixels(image) :
            ~NearInImageBoundary(p) => AlphaOf(p) = ChromaAlpha(p)

\* C4 amended: a pixel farther than BOUNDARY_DILATION_SIZE from every
\* foreground pixel that has a non-foreground neighbour position, positions
\* outside the image counting as not foreground, keeps the chroma-key alpha.
C4_LocalityPadded ==
    MaskDone =>
        \A p \in Pixels(image) :
            ~NearPaddedBoundary(p) => AlphaOf(p) = ChromaAlpha(p)

\* C4 witness: the refinement cleared some pixel, while a foreground pixel of
\* a colour it would clear lies out of its reach and stays opaque
C4_Witness ==
    /\ MaskDone
    /\ \E q \in Pixels(image) : ~ChromaBackground(q) /\ AlphaOf(q) = 0
    /\ \E p \in Pixels(image) :
          /\ ~ChromaBackground(p) /\ MeanDiffSmall(p)
          /\ ~NearPaddedBoundary(p)
          /\ AlphaOf(p) = 255

\* ------------------------------------------------------------------------
\* Specification of the auto path of process_image: detect, then remove
\* ------------------------------------------------------------------------
\* largest side of the images given to detect_background_color
MaxDetectSide == 5

DetectSides == {1, EDGE_SAMPLE_SIZE - 1} \cup (EDGE_SAMPLE_SIZE .. MaxDetectSide)

\* the getpixel value, in mode `mode`, of the c-th colour of PaletteTable
PixelValue(mode, c) ==
    CASE mode = "RGB"  -> PaletteTable[c]
      [] mode = "RGBA" -> PaletteTable[c] \o <<255>>
      [] mode = "L"    -> <<PaletteTable[c][1]>>
      [] mode = "P"    -> <<c - 1>>

\* first k pixels of colour 1 and the rest of colour 2, with the pixels at
\* (0,0), (w-1,0) and (0,1) recoloured
SplitImage(mode, w, h, k, c00, cR0, c01) ==
    MakeImage(mode, w, h,
        [p \in 1 .. w * h |->
            PixelValue(mode,
                IF p = 1 THEN c00
                ELSE IF p = w THEN cR0
                ELSE IF p = w + 1 THEN c01
                ELSE IF p <= k THEN 1 ELSE 2)])

DetectImages ==
    UNION { { SplitImage("RGB", w, h, k, c00, cR0, c01) :
                k \in 0 .. w * h, c00 \in 1..3, cR0 \in 1..3, c01 \in 1..3 }
            \cup { SplitImage(mode, w, h, k, 1, 1, 2) :
                k \in {0, (w * h) \div 2}, mode \in {"RGBA", "L", "P"} } :
            w \in DetectSides, h \in DetectSides }

InitDetect ==
    /\ pc = "detect"
    /\ image \in DetectImages
    /\ detected = NotCalled
    /\ bg_color = <<>>
    /\ processed = NotCalled
    /\ ScaleUnused
    /\ BatchUnused

\* line 352
DetectBackgroundColor ==
    /\ pc = "detect"
    /\ detected' = detect_background_color(image)
    /\ bg_color' = IF detected'.ok THEN detected'.value ELSE bg_color
    /\ pc' = IF detected'.ok THEN "remove" ELSE "raised"
    /\ UNCHANGED <<image, processed, scaleVars, batchVars>>

NextDetect == DetectBackgroundColor \/ RemoveBackgroundColor

SpecDetect == InitDetect /\ [][NextDetect]_vars

\* ------------------------------------------------------------------------
\* Claims about detect_background_color
\* ------------------------------------------------------------------------
\* the pixel values at a sequence of in-image coordinates
ValuesAt(coords) ==
    <<>> \o [k \in 1 .. Len(coords) |->
                image.data[PixelIndex(image, coords[k][1], coords[k][2])]]

Occurrences(seq, v) == Cardinality({ k \in 1 .. Len(seq) : seq[k] = v })

FirstOccurrence(seq, v) ==
    CHOOSE k \in 1 .. Len(seq) : seq[k] = v /\ \A j \in 1 .. k - 1 : seq[j] # v

\* v has the maximal occurrence count in seq and, among the values with that
\* count, occurs first
FirstMostFrequent(seq, v) ==
    /\ \E k \in 1 .. Len(seq) : seq[k] = v
    /\ \A u \in { seq[k] : k \in 1 .. Len(seq) } :
          \/ Occurrences(seq, v) > Occurrences(seq, u)
          \/ /\ Occurrences(seq, v) = Occurrences(seq, u)
             /\ FirstOccurrence(seq, v) <= FirstOccurrence(seq, u)

\* the border coordinates that exist, block by block: the left columns (each
\* top to bottom), then the right columns, then the top rows, then the bottom rows
BlockOrder ==
    LET w == image.width
        h == image.height
        cols == IF w < EDGE_SAMPLE_SIZE THEN w ELSE EDGE_SAMPLE_SIZE
        rows == IF h < EDGE_SAMPLE_SIZE THEN h ELSE EDGE_SAMPLE_SIZE
        L == [k \in 1 .. cols * h |-> <<(k - 1) \div h, (k - 1) % h>>]
        R == [k \in 1 .. cols * h |-> <<w - 1 - ((k - 1) \div h), (k - 1) % h>>]
        T == [k \in 1 .. rows * w |-> <<(k - 1) % w, (k - 1) \div w>>]
        B == [k \in 1 .. rows * w |-> <<(k - 1) % w, h - 1 - ((k - 1) \div w)>>]
    IN  L \o R \o T \o B

\* the same coordinates with each left sample followed at once by the right
\* sample of its row, and each top sample by the bottom sample of its column
PairedOrder ==
    LET w == image.width
        h == image.height
        cols == IF w < EDGE_SAMPLE_SIZE THEN w ELSE EDGE_SAMPLE_SIZE
        rows == IF h < EDGE_SAMPLE_SIZE THEN h ELSE EDGE_SAMPLE_SIZE
        LR == [k \in 1 .. 2 * cols * h |->
                 LET x == ((k - 1) \div 2) \div h
                     y == ((k - 1) \div 2) % h
                 IN  IF k % 2 = 1 THEN <<x, y>> ELSE <<w - 1 - x, y>>]
        TB == [k \in 1 .. 2 * rows * w |->
                 LET y == ((k - 1) \div 2) \div w
                     x == ((k - 1) \div 2) % w
                 IN  IF k % 2 = 1 THEN <<x, y>> ELSE <<x, h - 1 - y>>]
    IN  LR \o TB

\* C5 as stated: the colour returned has the maximal count among the sampled
\* border pixels, ties going to the colour met first when all left-column
\* samples are scanned, then all right-column, then top-row, then bottom-row.
C5_TieByBlockOrder ==
    detected.ok => FirstMostFrequent(ValuesAt(BlockOrder), detected.value)

\* C5 amended: the colour returned has the maximal count among the sampled
\* border pixels, ties going to the colour met first when each left-column
\* sample is followed at once by the right-column sample of the same row
\* (column by column, top to bottom), and then each top-row sample by the
\* bottom-row sample of the same column (row by row, left to right).
C5_TieByPairedOrder ==
    detected.ok => FirstMostFrequent(ValuesAt(PairedOrder), detected.value)

\* C5 witness: two colours tie for the maximal count, and the one returned is
\* not the colour of the very first sample
C5_Witness ==
    /\ detected.ok
    /\ LET seq == ValuesAt(BlockOrder) IN
       \E u \in { seq[k] : k \in 1 .. Len(seq) } :
          /\ u # detected.value
          /\ Occurrences(seq, u) = Occurrences(seq, detected.value)
    /\ detected.value # image.data[1]

\* C6: for every image of positive width and height, also one smaller than
\* EDGE_SAMPLE_SIZE in a dimension, detect_background_color raises no error
\* and returns a most frequent colour among the border pixels that exist.
C6_NoErrorOnSmallImages ==
    pc # "detect" =>
        /\ detected.ok
        /\ LET seq == ValuesAt(BlockOrder) IN
           \A u \in { seq[k] : k \in 1 .. Len(seq) } :
               Occurrences(seq, detected.value) >= Occurrences(seq, u)

\* C8: whatever the pixel mode of the image, the detected colour has three
\* components and remove_background_color then raises no error.
C8_ThreeComponents ==
    detected.ok => Len(detected.value) = 3 /\ pc # "raised"

\* ------------------------------------------------------------------------
\* Specification of scale_foreground on its own
\* ------------------------------------------------------------------------
MaxScaleWidth == 2

MaxScaleHeight == 11

\* an RGBA image transparent outside the rectangle [x0, x1] x [y0, y1]
RectImage(w, h, x0, y0, x1, y1, alpha) ==
    MakeImage("RGBA", w, h,
        [p \in 1 .. w * h |->
            IF /\ (p - 1) % w >= x0 /\ (p - 1) % w <= x1
               /\ (p - 1) \div w >= y0 /\ (p - 1) \div w <= y1
            THEN <<6, 0, 0, alpha>> ELSE <<0, 0, 0, 0>>])

\* the rectangles of every position and size, and the transparent image
\* (the rectangle with x1 < x0)
ScaleImages ==
    UNION { { RectImage(w, h, x0, y0, x1, y1, 255) :
                x0 \in 0 .. w - 1, x1 \in 0 .. w - 1, y0 \in 0 .. h - 1, y1 \in 0 .. h - 1 }
            \cup { RectImage(w, h, 0, 0, 0, 0, 1) } :
            w \in 1 .. MaxScaleWidth, h \in 1 .. MaxScaleHeight }

ScaleMargins == { DEFAULT_MARGIN_RATIO, <<0, 1>>, <<1, 2>> }

ScaleSizes == { None, <<15, 15>>, <<2, 15>>, <<3, 1>> }

InitScale ==
    /\ pc = "scale"
    /\ image \in ScaleImages
    /\ detected = NotCalled
    /\ bg_color = <<>>
    /\ processed = NotCalled
    /\ margin_ratio \in ScaleMargins
    /\ output_size \in ScaleSizes
    /\ geometry = NoGeometry
    /\ scaled = NotCalled
    /\ BatchUnused

ScaleForeground ==
    /\ pc = "scale"
    /\ scaled' = scale_foreground(image, margin_ratio, output_size)
    /\ geometry' = ScaleGeometry(image, margin_ratio, output_size)
    /\ pc' = IF scaled'.ok THEN "scaled" ELSE "raised"
    /\ UNCHANGED <<imageVars, margin_ratio, output_size, batchVars>>

NextScale == ScaleForeground

SpecScale == InitScale /\ [][NextScale]_vars

\* the margin as the exact ratio of the literal
MarginNum == margin_ratio[1]

MarginDen == margin_ratio[2]

CanvasW == CanvasSize(image, output_size)[1]

CanvasH == CanvasSize(image, output_size)[2]

\* C1: for every input image, with or without a non-transparent pixel, the
\* image returned by scale_foreground has exactly the requested size, or the
\* source image's size when none is requested.
C1_ReturnedSize ==
    pc = "scaled" => scaled.value.width = CanvasW /\ scaled.value.height = CanvasH

MaxFiles == 2

\* "B.PNG", "a.jpg", "a.png", "n.txt" and "éa.png"
BatchNames == {<<66, 46, 80, 78, 71>>, <<97, 46, 106, 112, 103>>, <<97, 46, 112, 110, 103>>,
               <<110, 46, 116, 120, 116>>, <<233, 97, 46, 112, 110, 103>>}

\* an undecodable file, a 5x5 image with a dark spot on white, and a 1x1 image
BatchContents ==
    {Undecodable,
     Encoded(SpotImage(EDGE_SAMPLE_SIZE, EDGE_SAMPLE_SIZE, <<255, 255, 255>>, <<0, 0, 0>>, 2, 2)),
     Encoded(MakeImage("RGB", 1, 1, << <<0, 0, 0>> >>))}

InputDirs ==
    {NoDir} \cup
    UNION { { [exists |-> TRUE, files |-> f] :
                f \in [names -> BatchContents] } :
            names \in { n \in SUBSET BatchNames : Cardinality(n) <= MaxFiles } }

\* "old.png" and "p_1_a.png"
OutputDirs ==
    {NoDir,
     [exists |-> TRUE, files |-> (<<111, 108, 100, 46, 112, 110, 103>> :> Undecodable)],
     [exists |-> TRUE, files |-> (GitKeep :> Undecodable) @@
                                 (<<112, 95, 49, 95, 97, 46, 112, 110, 103>> :> Undecodable)]}

BatchArgs ==
    [prefix : {<<>>, <<112>>}, input_dir : {"input"}, output_dir : {"output", "input"},
     mode : {"auto", "rembg"}, output_size : {None, <<15, 15>>}]

InitBatch ==
    /\ pc = "start"
    /\ args \in BatchArgs
    /\ \E in \in InputDirs, out \in OutputDirs :
          /\ args.output_dir = args.input_dir => out = NoDir
          /\ fs = [d \in {"input", "output"} |-> IF d = "input" THEN in ELSE out]
    /\ listing = <<>>
    /\ idx = 0
    /\ counter = 0
    /\ processed_count = 0
    /\ exit_code = None
    /\ log = <<>>
    /\ original = <<>>
    /\ image = <<>>
    /\ detected = NotCalled
    /\ bg_color = <<>>
    /\ processed = NotCalled
    /\ ScaleUnused

\* line 397; exit_code is None while main runs and <<status>> once it exited
ValidateInput ==
    /\ pc = "start"
    /\ IF validate_input(fs, args.input_dir)
       THEN /\ pc' = "validated"
            /\ original' = fs[args.input_dir].files
            /\ UNCHANGED exit_code
       ELSE /\ pc' = "rejected"
            /\ exit_code' = <<1>>
            /\ UNCHANGED original
    /\ UNCHANGED <<args, fs, listing, idx, counter, processed_count, log,
                   imageVars, scaleVars>>

\* lines 399-423, up to the listing of the input directory
PrepareOutput ==
    /\ pc = "validated"
    /\ fs' = PrepareOutputDir(fs, args.output_dir)
    /\ counter' = 1
    /\ processed_count' = 0
    /\ listing' = Sorted(ListDir(fs', args.input_dir))
    /\ idx' = 1
    /\ pc' = "loop"
    /\ UNCHANGED <<args, exit_code, log, original, imageVars, scaleVars>>

\* lines 423-449: one iteration of the loop
ProcessFile ==
    /\ pc = "loop"
    /\ idx <= Len(listing)
    /\ idx' = idx + 1
    /\ LET filename == listing[idx]
           output_name == OutputName(args.prefix, counter, sanitize_filename(filename))
       IN  IF ~IsImageName(filename)
           THEN UNCHANGED <<fs, counter, processed_count, log>>
           ELSE IF filename \notin ListDir(fs, args.input_dir)
           THEN \* FileNotFoundError at line 436
                /\ counter' = CounterAfter(counter, FALSE)
                /\ UNCHANGED <<fs, processed_count, log>>
           ELSE \E output_data \in
                     process_image(fs[args.input_dir].files[filename], args.mode) :
                  LET saved == SavedImage(output_data, args.output_size)
                  IN  /\ counter' = CounterAfter(counter, saved.ok)
                      /\ IF saved.ok
                         THEN /\ fs' = WriteFile(fs, args.output_dir, output_name,
                                                 Encoded(saved.value))
                              /\ processed_count' = processed_count + 1
                              /\ log' = Append(log, [filename |-> filename,
                                                     output_name |-> output_name])
                         ELSE UNCHANGED <<fs, processed_count, log>>
    /\ UNCHANGED <<pc, args, listing, exit_code, original, imageVars, scaleVars>>

\* lines 451-461
Finish ==
    /\ pc = "loop"
    /\ idx > Len(listing)
    /\ pc' = "finished"
    /\ exit_code' = IF processed_count = 0 THEN <<1>> ELSE <<0>>
    /\ UNCHANGED <<args, fs, listing, idx, counter, processed_count, log, original,
                   imageVars, scaleVars>>

NextBatch == ValidateInput \/ PrepareOutput \/ ProcessFile \/ Finish

SpecBatch == InitBatch /\ [][NextBatch]_vars

\* the image files of the run in sorted order, and a file's position there
ImageListing == SelectSeq(listing, IsImageName)

PositionOf(filename) == CHOOSE k \in 1 .. Len(ImageListing) : ImageListing[k] = filename

\* the image files before filename in sorted order that the run has saved
SavedBefore(filename) ==
    { i \in 1 .. Len(log) : PositionOf(log[i].filename) < PositionOf(filename) }

\* C7 as stated: with a non-empty prefix the k-th image file in sorted order
\* is written under sequence number k, whatever happened to the files before it
C7_NumberIsPosition ==
    (pc \in {"loop", "finished"} /\ args.prefix # <<>>) =>
        \A i \in 1 .. Len(log) :
            log[i].output_name =
                OutputName(args.prefix, PositionOf(log[i].filename),
                           sanitize_filename(log[i].filename))

\* C7 amended: with a non-empty prefix an image file is written under sequence
\* number 1 + the number of image files before it in sorted order that were
\* saved; a file whose processing raised takes no number
C7_NumberIsSuccessRank ==
    (pc \in {"loop", "finished"} /\ args.prefix # <<>>) =>
        \A i \in 1 .. Len(log) :
            log[i].output_name =
                OutputName(args.prefix, 1 + Cardinality(SavedBefore(log[i].filename)),
                           sanitize_filename(log[i].filename))

\* a finished run with a prefix in which a file was saved after an earlier
\* image file had failed
C7_Witness ==
    /\ pc = "finished"
    /\ args.prefix # <<>>
    /\ \E i \in 1 .. Len(log) :
          Cardinality(SavedBefore(log[i].filename)) + 1 < PositionOf(log[i].filename)

\* C9: at the end of a run the output directory holds processed_count image
\* files and no two saved files got the same output name
C9_DistinctOutputs ==
    pc = "finished" =>
        /\ Cardinality({ n \in ListDir(fs, args.output_dir) : IsImageName(n) })
              = processed_count
        /\ \A i, j \in 1 .. Len(log) :
              i # j => log[i].output_name # log[j].output_name

\* C10: every image file that was in input_dir when validate_input returned
\* is there with the same content once the output directory is prepared and
\* when the run ends
C10_InputsUntouched ==
    pc \in {"loop", "finished"} =>
        \A f \in DOMAIN original :
            IsImageName(f) =>
                /\ fs[args.input_dir].exists
                /\ f \in ListDir(fs, args.input_dir)
                /\ fs[args.input_dir].files[f] = original[f]

====
